---- MODULE Spec2Model ----
(***************************************************************************)
(* Model of the two coffea processors of athete/ad-analysis:               *)
(*   - AXOEfficiencyProcessor.process                                      *)
(*       (src/src/project-name/processors/AXOEfficiencyProcessor.py)       *)
(*   - AXOHistFactory.process (src/axo.py)                                 *)
(* A batch of events is a sequence of event records.  Columnar arrays are  *)
(* sequences with one element per event; a masked array keeps, next to     *)
(* each value, the index of the event it came from (ev), so that "event e  *)
(* is counted in histogram h" can be stated.  Histograms are bags of       *)
(* <<bin, category>> (weight 1 per entry, Double/weight storage).          *)
(* eta is carried as 10*eta so that the cut 2.3 is the integer 23.         *)
(***************************************************************************)
EXTENDS Integers, Sequences, FiniteSets, Bags, TLC

VARIABLES
    pc,          \* position inside process()
    err,         \* exception that ended process(), "none" if none
    events,      \* the input batch (AXOHistFactory: after the quality cuts)
    L1s,         \* common.L1s, the seeds under test
    L1_fields,   \* events.L1.fields, the seeds of the L1 menu of the input
    seed_i,      \* index of the next seed of the `for L1_seed in L1s` loop
    selection,   \* the PackedSelection: names and per-event bits
    cutflow,     \* OrderedDict: sequence of [name, n]
    select,      \* selection.all(*selection.names) taken at line 59
    jets,        \* jets after jet selection and pad_none
    h_ht, h_met, h_pt,   \* the histograms the numerator fills mutate in place
    hists,       \* the dictionary process() returns
    counted,     \* ghost: <<histogram, category, event>> for every filled event
    triggers,          \* AXOHistFactory.triggers
    hists_to_process,  \* AXOHistFactory.hists_to_process
    hist_dict,         \* the dictionary AXOHistFactory.process builds and returns
    events_trig,       \* the events of the current trigger path
    bi,                \* index of the next builder block (lines 100-203)
    ti,                \* index of the current trigger path (line 205)
    filled,            \* ghost: bag of the entries filled, with their event
    events_in          \* ghost: the batch as process() received it

effvars == <<L1s, L1_fields, seed_i, selection, cutflow, select, jets, h_ht, h_met, h_pt,
             hists, counted>>

histvars == <<triggers, hists_to_process, hist_dict, events_trig, bi, ti,
              filled, events_in>>

vars == <<pc, err, events, effvars, histvars>>

(***************************************************************************)
(* Bounds and program constants                                            *)
(***************************************************************************)
MaxEvents == 2

JetPtCut == 30
JetEtaCut10 == 23
EffNBins == 100
EffHi == 2000
top_n == 4
TopNBins == 100
TopHi == 1000

(***************************************************************************)
(* Generic helpers: dictionaries, arrays, histograms                       *)
(***************************************************************************)
None == [kind |-> "None"]
EmptyDict == [k \in {} |-> None]
Put(d, k, v) == [x \in (DOMAIN d) \cup {k} |-> IF x = k THEN v ELSE d[x]]
HistVal(h) == [kind |-> "hist", bins |-> h]

Abs(x) == IF x < 0 THEN -x ELSE x

RECURSIVE SumSeq(_)
SumSeq(s) == IF s = <<>> THEN 0 ELSE Head(s) + SumSeq(Tail(s))

RECURSIVE Flatten(_)
Flatten(ss) == IF ss = <<>> THEN <<>> ELSE Head(ss) \o Flatten(Tail(ss))

RECURSIVE CountTrue(_)
CountTrue(m) == IF m = <<>> THEN 0
                ELSE (IF Head(m) THEN 1 ELSE 0) + CountTrue(Tail(m))

\* indices of the events a boolean mask keeps, in order: array[mask]
RECURSIVE MaskIdxFrom(_, _)
MaskIdxFrom(m, i) ==
    IF i > Len(m) THEN <<>>
    ELSE (IF m[i] THEN <<i>> ELSE <<>>) \o MaskIdxFrom(m, i + 1)
MaskIdx(m) == MaskIdxFrom(m, 1)

MaskAnd(a, b) == [i \in 1..Len(a) |-> a[i] /\ b[i]]

\* Regular(100, 0, 2000) axis: bin index, with the under/overflow bins
EffBin(x) == IF x < 0 THEN -1
             ELSE IF x >= EffHi THEN EffNBins
             ELSE (x * EffNBins) \div EffHi

\* Hist.fill of the entries (a sequence of [ev, v]) under a category
RECURSIVE FillCat(_, _, _)
FillCat(h, entries, trig) ==
    IF entries = <<>> THEN h
    ELSE FillCat(h (+) SetToBag({<<EffBin(Head(entries).v), trig>>}),
                 Tail(entries), trig)

RECURSIVE FillPlain(_, _)
FillPlain(h, entries) ==
    IF entries = <<>> THEN h
    ELSE FillPlain(h (+) SetToBag({EffBin(Head(entries).v)}), Tail(entries))

Contrib(hname, trig, entries) ==
    {<<hname, trig, entries[k].ev>> : k \in 1..Len(entries)}

(***************************************************************************)
(* AXOEfficiencyProcessor: inputs                                          *)
(***************************************************************************)
\* the seeds process() reads by attribute at lines 44-47, in that order
L1Columns == <<"ZeroBias", "AXO_Nominal", "HTT360er", "ETMHF70">>
L1Fields == {"ZeroBias", "AXO_Nominal", "HTT360er", "ETMHF70"}
\* the seed read by attribute at line 194
S_QuadJet == "HTT320er_QuadJet_80_60_er2p1_45_40_er2p3"

Jet(pt, eta10) == [pt |-> pt, eta |-> eta10]

\* ScoutingPFJet and ScoutingMET of an event with no jet that passes the jet
\* selection (pt at the cut, |eta| beyond the cut) ...
FailKinematics == [jets |-> <<Jet(30, 0), Jet(60, -23)>>, met |-> 10]
\* ... and of an event with jets that pass and jets that do not
PassKinematics == [jets |-> <<Jet(50, 30), Jet(31, 22), Jet(45, -10), Jet(25, 5)>>, met |-> 90]

\* every combination of the four seeds with passing jets, and the
\* combinations of ZeroBias and AXO_Nominal with failing jets
EffEventSet ==
    { [L1 |-> b, jets |-> PassKinematics.jets, met |-> PassKinematics.met] :
        b \in [L1Fields -> BOOLEAN] }
    \cup
    { [L1 |-> b, jets |-> FailKinematics.jets, met |-> FailKinematics.met] :
        b \in { c \in [L1Fields -> BOOLEAN] : ~c["HTT360er"] /\ ~c["ETMHF70"] } }

\* events.L1.fields: the L1 menu of the input file.  The full menu, a menu
\* without the quad-jet seed, and a menu from before the AXO seeds existed.
FullMenu == L1Fields \cup {S_QuadJet}
MenuChoices == { FullMenu, L1Fields, FullMenu \ {"AXO_Nominal"} }

\* the quad-jet bit is left free only where all four other seeds fired
QuadJetBits(e) ==
    IF e.jets = PassKinematics.jets /\ (\A f \in L1Fields \ {"ZeroBias"} : e.L1[f])
    THEN BOOLEAN ELSE {FALSE}

\* an event of EffEventSet as a file with the given menu stores it: one bit
\* per seed of the menu
MenuEvent(e, q, menu) ==
    [L1 |-> [f \in menu |-> IF f = S_QuadJet THEN q ELSE e.L1[f]],
     jets |-> e.jets, met |-> e.met]

\* the events of a file with the given menu; for the menu without the
\* quad-jet seed, the events with passing jets that vary ZeroBias and
\* AXO_Nominal
EventsOfMenu(menu) ==
    { MenuEvent(p[1], p[2], menu) :
        p \in { x \in EffEventSet \X BOOLEAN :
                  /\ x[2] \in QuadJetBits(x[1])
                  /\ S_QuadJet \notin menu =>
                        /\ x[1].jets = PassKinematics.jets
                        /\ ~x[1].L1["HTT360er"]
                        /\ ~x[1].L1["ETMHF70"] } }

EffBatches(menu) == UNION { [1..n -> EventsOfMenu(menu)] : n \in 0..MaxEvents }

\* common.L1s: the list of seeds under test, each seed listed once
L1sChoices ==
    { <<"AXO_Nominal", "HTT360er", "ETMHF70">>,
      <<"HTT360er", "SingleMu22", "ETMHF70", "DoubleEG8">>,
      <<"ZeroBias">> }

(***************************************************************************)
(* AXOEfficiencyProcessor: PackedSelection and add_selection               *)
(***************************************************************************)
EmptySelection == [names |-> <<>>, data |-> [i \in 1..Len(events) |-> {}]]

\* PackedSelection.add(name, sel): one more name, its bit set where sel holds
PackedAdd(seln, name, sel) ==
    [names |-> Append(seln.names, name),
     data  |-> [i \in 1..Len(sel) |->
                  IF sel[i] THEN seln.data[i] \cup {name} ELSE seln.data[i]]]

\* PackedSelection.all(*names): the events whose bits of all `names` are set
PackedAll(seln, names) ==
    [i \in 1..Len(seln.data) |->
        \A k \in 1..Len(names) : names[k] \in seln.data[i]]

\* cutflow[name] = n on an OrderedDict
CutflowSet(cf, name, n) ==
    IF \E k \in 1..Len(cf) : cf[k].name = name
    THEN [k \in 1..Len(cf) |-> IF cf[k].name = name THEN [name |-> name, n |-> n]
                               ELSE cf[k]]
    ELSE Append(cf, [name |-> name, n |-> n])

\* variant: the cutflow counts the new selection alone
CutflowSumOnlySel(name, sel, seln2) == CountTrue(sel)

\* ak.sum(selection.all(*selection.names)) after the add
CutflowCount(name, sel, seln2) == CountTrue(PackedAll(seln2, seln2.names))

add_selection(name, sel, seln, cf) ==
    LET seln2 == PackedAdd(seln, name, sel)
    IN  [selection |-> seln2,
         cutflow   |-> CutflowSet(cf, name, CutflowCount(name, sel, seln2))]

(***************************************************************************)
(* AXOEfficiencyProcessor: columns and masks                               *)
(***************************************************************************)
L1Column(evs, seed) == [i \in 1..Len(evs) |-> evs[i].L1[seed]]

zero_bias_triggered(evs) == L1Column(evs, "ZeroBias")

axo_or_htt(evs) ==
    [i \in 1..Len(evs) |-> evs[i].L1["AXO_Nominal"] \/ evs[i].L1["HTT360er"]]

axo_or_etm(evs) ==
    [i \in 1..Len(evs) |-> evs[i].L1["AXO_Nominal"] \/ evs[i].L1["ETMHF70"]]

JetPass(j) == (j.pt > JetPtCut) /\ (Abs(j.eta) < JetEtaCut10)

\* ak.pad_none(jets[jet_selector], 1, axis=1)
PadNone1(s) == IF s = <<>> THEN <<None>> ELSE s
SelectedJets(evs) ==
    [i \in 1..Len(evs) |-> PadNone1(SelectSeq(evs[i].jets, JetPass))]

\* ak.any(jet_selector, axis=1)
jet_selector(evs) ==
    [i \in 1..Len(evs) |-> \E k \in 1..Len(evs[i].jets) : JetPass(evs[i].jets[k])]

\* the pt of the jets of one event, None entries dropped
JetPts(js) ==
    LET real == SelectSeq(js, LAMBDA j : j # None)
    IN  [k \in 1..Len(real) |-> real[k].pt]

\* ak.sum(jets.pt[mask], axis=1)
HtEntries(js, mask) ==
    LET idx == MaskIdx(mask)
    IN  [k \in 1..Len(idx) |-> [ev |-> idx[k], v |-> SumSeq(JetPts(js[idx[k]]))]]

\* met.pt[mask]
MetEntries(evs, mask) ==
    LET idx == MaskIdx(mask)
    IN  [k \in 1..Len(idx) |-> [ev |-> idx[k], v |-> evs[idx[k]].met]]

\* ak.flatten(jets.pt[mask], axis=1)
JetPtEntries(js, mask) ==
    LET idx == MaskIdx(mask)
    IN  Flatten([k \in 1..Len(idx) |->
                   LET p == JetPts(js[idx[k]])
                   IN  [n \in 1..Len(p) |-> [ev |-> idx[k], v |-> p[n]]]])

\* variant: select taken after the two trigger selections are added
SelectAfterTriggers(seln, evs) ==
    LET s2 == PackedAdd(PackedAdd(seln, "axo_and_htt360", axo_or_htt(evs)),
                        "axo_and_etmhf70", axo_or_etm(evs))
    IN  PackedAll(s2, s2.names)

\* select = selection.all(*selection.names), taken right after "jet" is added
ComputeSelect(seln, evs) == PackedAll(seln, seln.names)

\* den_selections = select * zero_bias_triggered
den_selections(sel, evs) == MaskAnd(sel, zero_bias_triggered(evs))

\* variant: the numerator mask without the reference trigger
NumWithoutZeroBias(sel, evs, trig) == MaskAnd(sel, trig)

\* num_selections = select * zero_bias_triggered * <trigger under test>
num_selections(sel, evs, trig) ==
    MaskAnd(MaskAnd(sel, zero_bias_triggered(evs)), trig)

\* variant: the seed loop walks L1s from its end
L1SeedReversed(seeds, i) == seeds[Len(seeds) + 1 - i]

\* `for L1_seed in L1s`: the seed of iteration i
L1_seed(seeds, i) == seeds[i]

\* the first seed of lines 44-47 that the menu does not have
RECURSIVE FirstAbsent(_, _)
FirstAbsent(cols, menu) ==
    IF cols = <<>> THEN None
    ELSE IF Head(cols) \notin menu THEN Head(cols)
    ELSE FirstAbsent(Tail(cols), menu)

\* Regular(100, 0, 1000) axis of h_pt_topn
TopBin(x) == IF x < 0 THEN -1
             ELSE IF x >= TopHi THEN TopNBins
             ELSE (x * TopNBins) \div TopHi

\* x[ak.argsort(x, ascending=False)] on the pt of one event
RECURSIVE InsertDesc(_, _)
InsertDesc(x, s) ==
    IF s = <<>> THEN <<x>>
    ELSE IF x >= Head(s) THEN <<x>> \o s
    ELSE <<Head(s)>> \o InsertDesc(x, Tail(s))

RECURSIVE SortDesc(_)
SortDesc(s) == IF s = <<>> THEN <<>> ELSE InsertDesc(Head(s), SortDesc(Tail(s)))

\* selections = select * zero_bias_triggered * quad_jet_select
quad_selections(sel, evs) ==
    MaskAnd(MaskAnd(sel, zero_bias_triggered(evs)), L1Column(evs, S_QuadJet))

\* ak.flatten(sorted_jets.pt[has_jet][:, i:(i + 1)]) with has_jet the events
\* with more than i jets; here rank = i + 1
TopNEntries(js, mask, rank) ==
    LET idx == MaskIdx(mask)
        has == SelectSeq(idx, LAMBDA e : Len(JetPts(js[e])) > rank - 1)
    IN  [k \in 1..Len(has) |->
            [ev |-> has[k], v |-> SortDesc(JetPts(js[has[k]]))[rank]]]

RankName(rank) == <<"jet1", "jet2", "jet3", "jet4">>[rank]

RECURSIVE FillRank(_, _, _)
FillRank(h, entries, rank) ==
    IF entries = <<>> THEN h
    ELSE FillRank(h (+) SetToBag({<<TopBin(Head(entries).v), rank>>}),
                  Tail(entries), rank)

(***************************************************************************)
(* AXOEfficiencyProcessor.process, step by step                            *)
(***************************************************************************)
InitEff ==
    /\ L1_fields \in MenuChoices
    /\ events \in EffBatches(L1_fields)
    /\ L1s \in L1sChoices
    /\ pc = "begin"
    /\ err = "none"
    /\ seed_i = 1
    /\ selection = [names |-> <<>>, data |-> <<>>]
    /\ cutflow = <<>>
    /\ select = <<>>
    /\ jets = <<>>
    /\ h_ht = EmptyBag
    /\ h_met = EmptyBag
    /\ h_pt = EmptyBag
    /\ hists = EmptyDict
    /\ counted = {}
    /\ triggers = <<>>
    /\ hists_to_process = EmptyDict
    /\ hist_dict = EmptyDict
    /\ events_trig = <<>>
    /\ bi = 1
    /\ ti = 1
    /\ filled = EmptyBag
    /\ events_in = <<>>

\* lines 33-37: the empty PackedSelection and cutflow["begin"]
Begin ==
    /\ pc = "begin"
    /\ selection' = EmptySelection
    /\ cutflow' = CutflowSet(<<>>, "begin", Len(events))
    /\ pc' = "jet"
    /\ UNCHANGED histvars
    /\ UNCHANGED <<err, events, L1s, L1_fields, seed_i, select, jets, h_ht, h_met, h_pt,
                   hists, counted>>

\* lines 44-47: events.L1.<seed> on a menu that does not have the seed
L1ColumnMissing ==
    /\ pc = "jet"
    /\ ~(L1Fields \subseteq L1_fields)
    /\ err' = <<"AttributeError", FirstAbsent(L1Columns, L1_fields)>>
    /\ pc' = "raised"
    /\ UNCHANGED histvars
    /\ UNCHANGED <<events, effvars>>

\* lines 44-59: the L1 columns, the jet selection, add_selection("jet"),
\* and select
JetSelection ==
    /\ pc = "jet"
    /\ L1Fields \subseteq L1_fields
    /\ LET r == add_selection("jet", jet_selector(events), selection, cutflow)
       IN  /\ selection' = r.selection
           /\ cutflow' = r.cutflow
           /\ select' = ComputeSelect(r.selection, events)
    /\ jets' = SelectedJets(events)
    /\ pc' = "axo_htt"
    /\ UNCHANGED histvars
    /\ UNCHANGED <<err, events, L1s, L1_fields, seed_i, h_ht, h_met, h_pt, hists, counted>>

\* line 62
AddAxoHtt ==
    /\ pc = "axo_htt"
    /\ LET r == add_selection("axo_and_htt360", axo_or_htt(events), selection, cutflow)
       IN  /\ selection' = r.selection
           /\ cutflow' = r.cutflow
    /\ pc' = "axo_etm"
    /\ UNCHANGED histvars
    /\ UNCHANGED <<err, events, L1s, L1_fields, seed_i, select, jets, h_ht, h_met, h_pt,
                   hists, counted>>

\* line 65
AddAxoEtm ==
    /\ pc = "axo_etm"
    /\ LET r == add_selection("axo_and_etmhf70", axo_or_etm(events), selection, cutflow)
       IN  /\ selection' = r.selection
           /\ cutflow' = r.cutflow
    /\ pc' = "all"
    /\ UNCHANGED histvars
    /\ UNCHANGED <<err, events, L1s, L1_fields, seed_i, select, jets, h_ht, h_met, h_pt,
                   hists, counted>>

\* lines 67-73: the dictionary as first created
InitialHists ==
    [k \in {"ht", "met", "jetpt", "ht_all", "jetpt_all"} |->
        IF k \in {"ht", "met", "jetpt"} THEN EmptyDict ELSE None]

\* lines 67-99: the dictionary and the all-events histograms
FillAll ==
    /\ pc = "all"
    /\ LET ht  == HtEntries(jets, select)
           pt  == JetPtEntries(jets, select)
           met == MetEntries(events, select)
       IN  /\ hists' = Put(Put(Put(InitialHists,
                         "ht_all",  HistVal(FillPlain(EmptyBag, ht))),
                         "pt_all",  HistVal(FillPlain(EmptyBag, pt))),
                         "met_all", HistVal(FillPlain(EmptyBag, met)))
           /\ counted' = counted \cup Contrib("ht_all", "all", ht)
                                 \cup Contrib("pt_all", "all", pt)
                                 \cup Contrib("met_all", "all", met)
    /\ pc' = "den"
    /\ UNCHANGED histvars
    /\ UNCHANGED <<err, events, L1s, L1_fields, seed_i, selection, cutflow, select, jets,
                   h_ht, h_met, h_pt>>

\* lines 104-135: the denominators, filled into copies of the empty histograms
FillDen ==
    /\ pc = "den"
    /\ LET den == den_selections(select, events)
           ht  == HtEntries(jets, den)
           met == MetEntries(events, den)
           pt  == JetPtEntries(jets, den)
       IN  /\ hists' = [hists EXCEPT
                 !["ht"]    = Put(@, "den", HistVal(FillCat(h_ht, ht, "ZeroBias"))),
                 !["met"]   = Put(@, "den", HistVal(FillCat(h_met, met, "ZeroBias"))),
                 !["jetpt"] = Put(@, "den", HistVal(FillCat(h_pt, pt, "ZeroBias")))]
           /\ counted' = counted \cup Contrib("ht.den", "ZeroBias", ht)
                                 \cup Contrib("met.den", "ZeroBias", met)
                                 \cup Contrib("jetpt.den", "ZeroBias", pt)
    /\ pc' = IF L1s = <<>> THEN "axo_htt_num" ELSE "seeds"
    /\ UNCHANGED histvars
    /\ UNCHANGED <<err, events, L1s, L1_fields, seed_i, selection, cutflow, select, jets,
                   h_ht, h_met, h_pt>>

\* lines 139-141: a seed of L1s that the L1 menu does not have
SeedMissing ==
    /\ pc = "seeds"
    /\ L1_seed(L1s, seed_i) \notin L1_fields
    /\ err' = <<"KeyError", L1_seed(L1s, seed_i)>>
    /\ pc' = "raised"
    /\ UNCHANGED histvars
    /\ UNCHANGED <<events, effvars>>

\* lines 139-160: one iteration of the seed loop
SeedFill ==
    /\ pc = "seeds"
    /\ L1_seed(L1s, seed_i) \in L1_fields
    /\ LET seed == L1_seed(L1s, seed_i)
           num == num_selections(select, events, L1Column(events, seed))
           ht  == HtEntries(jets, num)
           met == MetEntries(events, num)
           pt  == JetPtEntries(jets, num)
       IN  /\ h_ht'  = FillCat(h_ht, ht, seed)
           /\ h_met' = FillCat(h_met, met, seed)
           /\ h_pt'  = FillCat(h_pt, pt, seed)
           /\ hists' = [hists EXCEPT
                 !["ht"]    = Put(@, "num", HistVal(h_ht')),
                 !["met"]   = Put(@, "num", HistVal(h_met')),
                 !["jetpt"] = Put(@, "num", HistVal(h_pt'))]
           /\ counted' = counted \cup Contrib("ht.num", seed, ht)
                                 \cup Contrib("met.num", seed, met)
                                 \cup Contrib("jetpt.num", seed, pt)
    /\ seed_i' = seed_i + 1
    /\ pc' = IF seed_i = Len(L1s) THEN "axo_htt_num" ELSE "seeds"
    /\ UNCHANGED histvars
    /\ UNCHANGED <<err, events, L1s, L1_fields, selection, cutflow, select, jets>>

\* lines 163-175: the combined category AXO_Nominal_HTT360er
FillAxoHtt ==
    /\ pc = "axo_htt_num"
    /\ LET num == num_selections(select, events, axo_or_htt(events))
           ht  == HtEntries(jets, num)
           met == MetEntries(events, num)
           pt  == JetPtEntries(jets, num)
       IN  /\ h_ht'  = FillCat(h_ht, ht, "AXO_Nominal_HTT360er")
           /\ h_met' = FillCat(h_met, met, "AXO_Nominal_HTT360er")
           /\ h_pt'  = FillCat(h_pt, pt, "AXO_Nominal_HTT360er")
           /\ hists' = [hists EXCEPT
                 !["ht"]    = Put(@, "num", HistVal(h_ht')),
                 !["met"]   = Put(@, "num", HistVal(h_met')),
                 !["jetpt"] = Put(@, "num", HistVal(h_pt'))]
           /\ counted' = counted
                 \cup Contrib("ht.num", "AXO_Nominal_HTT360er", ht)
                 \cup Contrib("met.num", "AXO_Nominal_HTT360er", met)
                 \cup Contrib("jetpt.num", "AXO_Nominal_HTT360er", pt)
    /\ pc' = "axo_etm_num"
    /\ UNCHANGED histvars
    /\ UNCHANGED <<err, events, L1s, L1_fields, seed_i, selection, cutflow, select, jets>>

\* lines 178-182: the combined category AXO_Nominal_ETMHF70 (met only)
FillAxoEtm ==
    /\ pc = "axo_etm_num"
    /\ LET num == num_selections(select, events, axo_or_etm(events))
           met == MetEntries(events, num)
       IN  /\ h_met' = FillCat(h_met, met, "AXO_Nominal_ETMHF70")
           /\ hists' = [hists EXCEPT !["met"] = Put(@, "num", HistVal(h_met'))]
           /\ counted' = counted \cup Contrib("met.num", "AXO_Nominal_ETMHF70", met)
    /\ pc' = "topn"
    /\ UNCHANGED histvars
    /\ UNCHANGED <<err, events, L1s, L1_fields, seed_i, selection, cutflow, select, jets,
                   h_ht, h_pt>>

\* lines 185-194: hists["jetpt_topN"] = {} and events.L1.<quad-jet seed> on
\* a menu that does not have it
QuadJetMissing ==
    /\ pc = "topn"
    /\ S_QuadJet \notin L1_fields
    /\ hists' = Put(hists, "jetpt_topN", EmptyDict)
    /\ err' = <<"AttributeError", S_QuadJet>>
    /\ pc' = "raised"
    /\ UNCHANGED histvars
    /\ UNCHANGED <<events, L1s, L1_fields, seed_i, selection, cutflow, select, jets,
                   h_ht, h_met, h_pt, counted>>

\* lines 185-206: the pt of the top_n leading jets of the quad-jet events,
\* each rank in its own copy of h_pt_topn
FillTopN ==
    /\ pc = "topn"
    /\ S_QuadJet \in L1_fields
    /\ LET sels == quad_selections(select, events)
       IN  /\ hists' = Put(hists, "jetpt_topN",
                 [r \in {RankName(i) : i \in 1..top_n} |->
                     LET i == CHOOSE i \in 1..top_n : RankName(i) = r
                     IN  HistVal(FillRank(EmptyBag, TopNEntries(jets, sels, i), r))])
           /\ counted' = counted \cup
                 UNION { Contrib("jetpt_topN", RankName(i), TopNEntries(jets, sels, i)) :
                           i \in 1..top_n }
    /\ pc' = "return"
    /\ UNCHANGED histvars
    /\ UNCHANGED <<err, events, L1s, L1_fields, seed_i, selection, cutflow, select, jets,
                   h_ht, h_met, h_pt>>

\* lines 208-209
Return ==
    /\ pc = "return"
    /\ hists' = Put(hists, "cutflow", [kind |-> "cutflow", flow |-> cutflow])
    /\ pc' = "done"
    /\ UNCHANGED histvars
    /\ UNCHANGED <<err, events, L1s, L1_fields, seed_i, selection, cutflow, select, jets,
                   h_ht, h_met, h_pt, counted>>

NextEff ==
    \/ Begin
    \/ L1ColumnMissing
    \/ JetSelection
    \/ AddAxoHtt
    \/ AddAxoEtm
    \/ FillAll
    \/ FillDen
    \/ SeedMissing
    \/ SeedFill
    \/ FillAxoHtt
    \/ FillAxoEtm
    \/ QuadJetMissing
    \/ FillTopN
    \/ Return

SpecEff == InitEff /\ [][NextEff]_vars

(***************************************************************************)
(* Claims about AXOEfficiencyProcessor.process (checked under SpecEff)     *)
(***************************************************************************)
EffPairs == { <<"ht.num", "ht.den", "ht">>, <<"met.num", "met.den", "met">>,
              <<"jetpt.num", "jetpt.den", "jetpt">> }

\* process() ended at lines 44-47, before any selection or histogram
RaisedAtColumns == pc = "raised" /\ err[1] = "AttributeError" /\ err[2] \in L1Fields

DenFilled ==
    \/ pc \in {"seeds", "axo_htt_num", "axo_etm_num", "topn", "return", "done"}
    \/ pc = "raised" /\ ~RaisedAtColumns

\* the numerator histogram of a pair, as the seed loop has filled it so far
NumBag(key) == IF key = "ht" THEN h_ht ELSE IF key = "met" THEN h_met ELSE h_pt

\* C1: every event counted in a numerator histogram (ht, met, jetpt) is also
\* counted in the corresponding denominator histogram, and for each trigger
\* category and each bin the numerator count never exceeds the denominator
\* count (the denominator's only category being ZeroBias).
C1_NumWithinDen ==
    DenFilled =>
        \A p \in EffPairs :
            /\ \A t \in counted :
                  t[1] = p[1] => <<p[2], "ZeroBias", t[3]>> \in counted
            /\ \A b \in BagToSet(NumBag(p[3])) :
                  CopiesIn(b, NumBag(p[3]))
                      <= CopiesIn(<<b[1], "ZeroBias">>, hists[p[3]]["den"].bins)

\* a seed category holds an event while the denominator holds one more event
\* that this seed rejected
C1_Witness ==
    /\ pc = "done"
    /\ \E t \in counted, d \in counted :
          /\ t[1] = "jetpt.num" /\ t[2] \in L1Fields
          /\ d[1] = "jetpt.den" /\ <<"jetpt.num", t[2], d[3]>> \notin counted

\* C2: an event is counted in the denominator histograms if and only if it
\* passes ZeroBias and the jet selection; `select` stays the jet selection
\* after 'axo_and_htt360' and 'axo_and_etmhf70' are added to the selection.
C2_DenIsZeroBiasAndJets ==
    /\ (pc \notin {"begin", "jet"} /\ ~RaisedAtColumns)
          => select = jet_selector(events)
    /\ DenFilled =>
          \A i \in 1..Len(events) : \A p \in EffPairs :
              (<<p[2], "ZeroBias", i>> \in counted)
                  <=> (events[i].L1["ZeroBias"] /\ jet_selector(events)[i])

\* the denominator holds an event that no trigger under test accepted
C2_Witness ==
    /\ pc = "done"
    /\ selection.names = <<"jet", "axo_and_htt360", "axo_and_etmhf70">>
    /\ \E i \in 1..Len(events) :
          /\ <<"ht.den", "ZeroBias", i>> \in counted
          /\ ~events[i].L1["AXO_Nominal"]
          /\ ~events[i].L1["HTT360er"]
          /\ ~events[i].L1["ETMHF70"]

\* C9: the selection 'axo_and_htt360' and the category 'AXO_Nominal_HTT360er'
\* hold only events that pass both L1_AXO_Nominal and L1_HTT360er, and
\* 'axo_and_etmhf70' / 'AXO_Nominal_ETMHF70' hold only events that pass both
\* L1_AXO_Nominal and L1_ETMHF70.
C9_CombinedIsConjunction ==
    /\ \A i \in 1..Len(selection.data) :
          /\ "axo_and_htt360" \in selection.data[i]
                => (events[i].L1["AXO_Nominal"] /\ events[i].L1["HTT360er"])
          /\ "axo_and_etmhf70" \in selection.data[i]
                => (events[i].L1["AXO_Nominal"] /\ events[i].L1["ETMHF70"])
    /\ \A t \in counted :
          /\ t[2] = "AXO_Nominal_HTT360er"
                => (events[t[3]].L1["AXO_Nominal"] /\ events[t[3]].L1["HTT360er"])
          /\ t[2] = "AXO_Nominal_ETMHF70"
                => (events[t[3]].L1["AXO_Nominal"] /\ events[t[3]].L1["ETMHF70"])

\* the mask a selection name was added with, read off the events
SelOf(name) ==
    IF name = "jet" THEN jet_selector(events)
    ELSE IF name = "axo_and_htt360" THEN axo_or_htt(events)
    ELSE axo_or_etm(events)

\* C10: after every add_selection(name, ...), cutflow[name] is the number of
\* events that pass the conjunction of all selections added so far, name
\* included; the cutflow is non-increasing in insertion order,
\* begin >= jet >= axo_and_htt360 >= axo_and_etmhf70.
C10_CutflowIsConjunctionCount ==
    /\ pc # "begin" => (cutflow[1] = [name |-> "begin", n |-> Len(events)])
    /\ \A k \in 2..Len(cutflow) :
          /\ cutflow[k].name = selection.names[k - 1]
          /\ cutflow[k].n =
                Cardinality({ i \in 1..Len(events) :
                    \A m \in 2..k : SelOf(cutflow[m].name)[i] })
    /\ \A k \in 1..(Len(cutflow) - 1) : cutflow[k].n >= cutflow[k + 1].n

\* all four cutflow entries are there and the counts really drop
C10_Witness ==
    /\ pc = "done"
    /\ Len(cutflow) = 4
    /\ cutflow[2].n > cutflow[3].n
    /\ cutflow[3].n > cutflow[4].n

ColumnsPresent == L1Fields \subseteq L1_fields

\* the positions in L1s of the seeds the menu does not have
MissingSeeds == { k \in 1..Len(L1s) : L1s[k] \notin L1_fields }
FirstMissingIdx == CHOOSE k \in MissingSeeds : \A j \in MissingSeeds : k <= j

AfterSeedLoop ==
    \/ pc \in {"axo_htt_num", "axo_etm_num", "topn", "return", "done"}
    \/ pc = "raised" /\ err = <<"AttributeError", S_QuadJet>>

NumNames == {"ht.num", "met.num", "jetpt.num"}
CombinedCategories == {"AXO_Nominal_HTT360er", "AXO_Nominal_ETMHF70"}
SeedNames == { L1s[k] : k \in 1..Len(L1s) }

\* the number of entries a histogram holds under a category
EntriesUnder(h, cat) ==
    LET bs == { b \in BagToSet(h) : b[2] = cat }
    IN  BagCardinality([b \in bs |-> CopiesIn(b, h)])

\* the category of seed k holds exactly the events passing the jet
\* selection, ZeroBias and the seed
SeedCategoryFilled(k) ==
    LET passing == { i \in 1..Len(events) :
                       /\ jet_selector(events)[i]
                       /\ events[i].L1["ZeroBias"]
                       /\ events[i].L1[L1s[k]] }
    IN  /\ \A h \in NumNames :
              { t[3] : t \in { u \in counted : u[1] = h /\ u[2] = L1s[k] } } = passing
        /\ EntriesUnder(h_ht, L1s[k]) = Cardinality(passing)
        /\ EntriesUnder(h_met, L1s[k]) = Cardinality(passing)
        /\ EntriesUnder(h_pt, L1s[k]) >= Cardinality(passing)

NumCategories ==
    { b[2] : b \in BagToSet(h_ht) \cup BagToSet(h_met) \cup BagToSet(h_pt) }

\* C11 as stated: if a seed of L1s is not a field of events.L1, process ends
\* with a KeyError naming the first such seed in L1s order and returns no
\* dictionary; if every seed is present, no KeyError is raised and the
\* numerator histograms hold one trigger category per seed of L1s.
C11_MissingSeedEndsInKeyError ==
    /\ MissingSeeds # {} =>
          /\ pc # "done"
          /\ pc = "raised" => err = <<"KeyError", L1s[FirstMissingIdx]>>
    /\ MissingSeeds = {} =>
          /\ ~(pc = "raised" /\ err[1] = "KeyError")
          /\ pc \in {"done", "raised"} =>
                \A k \in 1..Len(L1s) : SeedCategoryFilled(k)

\* C11, amended: when events.L1 has the four fields read at lines 44-47
\* (otherwise process ends there with an AttributeError), a seed of L1s that
\* is not a field of events.L1 ends process with a KeyError naming the first
\* such seed in L1s order, before the loop is left and with nothing returned;
\* if every seed is present, no KeyError is raised and after the loop the
\* numerator histograms hold, under the category named after each seed, the
\* events passing the jet selection, ZeroBias and that seed, the loop adding
\* no other category.
C11_SeedLoopKeyError ==
    /\ ~ColumnsPresent =>
          /\ pc \in {"begin", "jet", "raised"}
          /\ pc = "raised" =>
                err = <<"AttributeError", FirstAbsent(L1Columns, L1_fields)>>
    /\ (ColumnsPresent /\ MissingSeeds # {}) =>
          /\ ~AfterSeedLoop
          /\ pc = "seeds" => seed_i <= FirstMissingIdx
          /\ pc = "raised" =>
                /\ err = <<"KeyError", L1s[FirstMissingIdx]>>
                /\ "cutflow" \notin DOMAIN hists
    /\ (ColumnsPresent /\ MissingSeeds = {}) =>
          /\ ~(pc = "raised" /\ err[1] = "KeyError")
          /\ pc = "axo_htt_num" => NumCategories \subseteq SeedNames
          /\ NumCategories \subseteq SeedNames \cup CombinedCategories
          /\ AfterSeedLoop => \A k \in 1..Len(L1s) : SeedCategoryFilled(k)

\* the loop filled the first seed and raised on the second, the first of two
\* seeds the menu does not have
C11_Witness ==
    /\ pc = "raised"
    /\ err = <<"KeyError", "SingleMu22">>
    /\ seed_i = 2
    /\ Cardinality(MissingSeeds) = 2
    /\ \E t \in counted : t[1] = "ht.num" /\ t[2] = "HTT360er"

\* C12: in the returned dictionary, 'ht_all' and 'jetpt_all' both hold a
\* histogram filled from all events passing the jet selection (neither is
\* None), and 'ht', 'met' and 'jetpt' each hold a 'den' and a 'num' histogram.
C12_DeclaredEntriesFilled ==
    pc = "done" =>
        /\ \A k \in {"ht", "met", "jetpt"} :
              /\ {"den", "num"} \subseteq DOMAIN hists[k]
              /\ hists[k]["den"].kind = "hist"
              /\ hists[k]["num"].kind = "hist"
        /\ hists["ht_all"] # None
        /\ hists["ht_all"].bins =
              FillPlain(EmptyBag, HtEntries(jets, jet_selector(events)))
        /\ hists["jetpt_all"] # None
        /\ hists["jetpt_all"].bins =
              FillPlain(EmptyBag, JetPtEntries(jets, jet_selector(events)))

(***************************************************************************)
(* AXOHistFactory (src/axo.py).  Strings that the code takes apart         *)
(* (trigger paths, object names) are sequences of characters.  Momenta     *)
(* are in units of 0.1 GeV, eta and phi in units of 0.1.                   *)
(***************************************************************************)
SatJetPt == 10000
SatMetPt == 10400

RECURSIVE Split(_, _)
\* str.split(sep) for a one-character separator
Split(str, sep) ==
    IF \A k \in 1..Len(str) : str[k] # sep THEN <<str>>
    ELSE LET k == CHOOSE n \in 1..Len(str) :
                     str[n] = sep /\ \A m \in 1..(n - 1) : str[m] # sep
         IN  <<SubSeq(str, 1, k - 1)>> \o Split(SubSeq(str, k + 1, Len(str)), sep)

RECURSIVE Join(_, _)
\* sep.join(tokens)
Join(tokens, sep) ==
    IF tokens = <<>> THEN <<>>
    ELSE IF Len(tokens) = 1 THEN tokens[1]
    ELSE tokens[1] \o <<sep>> \o Join(Tail(tokens), sep)

\* sub in str
Contains(sub, str) ==
    \E k \in 0..(Len(str) - Len(sub)) : SubSeq(str, k + 1, k + Len(sub)) = sub

\* variant: the category taken from the first token
CategoryFirstToken(trigger_path) == Split(trigger_path, "_")[1]

\* trigger_path.split("_")[0]
TriggerBranchName(trigger_path) == Split(trigger_path, "_")[1]

\* "_".join(trigger_path.split("_")[1:])
TriggerPathName(trigger_path) == Join(Tail(Split(trigger_path, "_")), "_")

\* trigger_path.split("_")[-1]
TriggerCategory(trigger_path) ==
    LET t == Split(trigger_path, "_") IN t[Len(t)]

\* the names used below, spelled out
S_L1 == <<"L", "1">>
S_DST == <<"D", "S", "T">>
S_ZeroBias == <<"Z", "e", "r", "o", "B", "i", "a", "s">>
S_PFScouting_ZeroBias ==
    <<"P", "F", "S", "c", "o", "u", "t", "i", "n", "g", "_">> \o S_ZeroBias
T_L1_ZeroBias == S_L1 \o <<"_">> \o S_ZeroBias
T_DST_PFScouting_ZeroBias == S_DST \o <<"_">> \o S_PFScouting_ZeroBias

S_Scouting == <<"S", "c", "o", "u", "t", "i", "n", "g">>
S_ScoutingPFJet == S_Scouting \o <<"P", "F", "J", "e", "t">>
S_ScoutingElectron == S_Scouting \o <<"E", "l", "e", "c", "t", "r", "o", "n">>
S_ScoutingMuonVtx == S_Scouting \o <<"M", "u", "o", "n", "V", "t", "x">>
S_ScoutingPhoton == S_Scouting \o <<"P", "h", "o", "t", "o", "n">>
S_L1Jet == S_L1 \o <<"J", "e", "t">>
S_L1EG == S_L1 \o <<"E", "G">>
S_L1Mu == S_L1 \o <<"M", "u">>

\* self.object_dict, in insertion order: the pt cut of every object type
object_dict ==
    << [obj |-> S_ScoutingPFJet,    cuts |-> <<[var |-> "pt", cut |-> 300]>>],
       [obj |-> S_ScoutingElectron, cuts |-> <<[var |-> "pt", cut |-> 100]>>],
       [obj |-> S_ScoutingMuonVtx,  cuts |-> <<[var |-> "pt", cut |-> 30]>>],
       [obj |-> S_ScoutingPhoton,   cuts |-> <<[var |-> "pt", cut |-> 100]>>],
       [obj |-> S_L1Jet,            cuts |-> <<[var |-> "pt", cut |-> 1]>>],
       [obj |-> S_L1EG,             cuts |-> <<[var |-> "pt", cut |-> 1]>>],
       [obj |-> S_L1Mu,             cuts |-> <<[var |-> "pt", cut |-> 1]>> ] >>

ObjNames == { object_dict[k].obj : k \in 1..Len(object_dict) }

\* the axes of __init__: Regular(n, lo, hi, name)
Axes ==
    [a \in {"pt", "ht", "met", "eta", "phi", "mult"} |->
        CASE a = "pt"   -> [n |-> 500, lo |-> 0,   hi |-> 50000, name |-> a]
          [] a = "ht"   -> [n |-> 70,  lo |-> 0,   hi |-> 20000, name |-> a]
          [] a = "met"  -> [n |-> 250, lo |-> 0,   hi |-> 25000, name |-> a]
          [] a = "eta"  -> [n |-> 150, lo |-> -50, hi |-> 50,    name |-> a]
          [] a = "phi"  -> [n |-> 30,  lo |-> -40, hi |-> 40,    name |-> a]
          [] a = "mult" -> [n |-> 200, lo |-> 0,   hi |-> 201,   name |-> a]]

\* bin index on a Regular axis, with the under/overflow bins
RegBin(ax, x) ==
    IF x < ax.lo THEN -1
    ELSE IF x >= ax.hi THEN ax.n
    ELSE ((x - ax.lo) * ax.n) \div (ax.hi - ax.lo)

(***************************************************************************)
(* AXOHistFactory: inputs                                                  *)
(***************************************************************************)
Obj(pt, eta10, phi10) == [pt |-> pt, eta |-> eta10, phi |-> phi10]
L1Obj(pt, eta10, phi10, bx) == [pt |-> pt, eta |-> eta10, phi |-> phi10, bx |-> bx]
EtSum(type, bx, pt) == [etSumType |-> type, bx |-> bx, pt |-> pt]

\* the collections of one event; L1EtSum has one entry per (etSumType, bx)
HistKinematics ==
    { \* nothing saturated
      [coll |-> [o \in ObjNames |->
          CASE o = S_ScoutingPFJet    -> <<Obj(450, 10, 5), Obj(300, -12, 20), Obj(310, 0, -30)>>
            [] o = S_ScoutingElectron -> <<Obj(100, 3, 1), Obj(120, -20, 2)>>
            [] o = S_ScoutingMuonVtx  -> <<Obj(31, 7, -10), Obj(29, 8, 10)>>
            [] o = S_ScoutingPhoton   -> <<>>
            [] o = S_L1Jet            -> <<L1Obj(9990, 10, 5, 0), L1Obj(600, 0, 0, 1), L1Obj(1, 4, 4, 0)>>
            [] o = S_L1EG             -> <<L1Obj(200, -3, 9, -1), L1Obj(2, 3, -9, 0)>>
            [] o = S_L1Mu             -> <<L1Obj(50, 11, 12, 0), L1Obj(40, 12, 13, 0)>>],
       L1EtSum |-> <<EtSum(1, 0, 3000), EtSum(2, 0, 10390), EtSum(2, 1, 20000)>>,
       ScoutingMET |-> 700],
      \* an L1 jet at the saturation value, in a neighbouring bunch crossing
      [coll |-> [o \in ObjNames |->
          CASE o = S_ScoutingPFJet    -> <<Obj(900, 1, 1)>>
            [] o = S_ScoutingElectron -> <<>>
            [] o = S_ScoutingMuonVtx  -> <<Obj(80, 2, 2)>>
            [] o = S_ScoutingPhoton   -> <<Obj(150, 3, 3)>>
            [] o = S_L1Jet            -> <<L1Obj(500, 10, 5, 0), L1Obj(10000, 0, 0, 1)>>
            [] o = S_L1EG             -> <<L1Obj(30, 1, 1, 0)>>
            [] o = S_L1Mu             -> <<>>],
       L1EtSum |-> <<EtSum(1, 0, 5000), EtSum(2, 0, 400), EtSum(2, 1, 0)>>,
       ScoutingMET |-> 300],
      \* the missing-energy sum at the saturation value
      [coll |-> [o \in ObjNames |->
          CASE o = S_ScoutingPFJet    -> <<Obj(350, 1, 1), Obj(400, 2, 2)>>
            [] o = S_ScoutingElectron -> <<Obj(110, 5, 5)>>
            [] o = S_ScoutingMuonVtx  -> <<>>
            [] o = S_ScoutingPhoton   -> <<Obj(90, 3, 3)>>
            [] o = S_L1Jet            -> <<L1Obj(700, 10, 5, 0)>>
            [] o = S_L1EG             -> <<>>
            [] o = S_L1Mu             -> <<L1Obj(60, 1, 1, 0)>>],
       L1EtSum |-> <<EtSum(2, 0, 10400), EtSum(1, 0, 8000), EtSum(2, 1, 100)>>,
       ScoutingMET |-> 9000] }

TrigPaths == {T_DST_PFScouting_ZeroBias, T_L1_ZeroBias}

\* events.<branch>.<path> for the decisions b of the two trigger paths
Branches(b) ==
    [br \in {S_DST, S_L1} |->
        IF br = S_DST THEN [q \in {S_PFScouting_ZeroBias} |-> b[T_DST_PFScouting_ZeroBias]]
        ELSE [q \in {S_ZeroBias} |-> b[T_L1_ZeroBias]]]

HistEventSet ==
    { [branch |-> Branches(b), coll |-> k.coll, L1EtSum |-> k.L1EtSum,
       ScoutingMET |-> k.ScoutingMET] :
        b \in [TrigPaths -> BOOLEAN], k \in HistKinematics }

\* a batch; id is the position of the event in the batch as it came in
WithId(e, i) ==
    [id |-> i, branch |-> e.branch, coll |-> e.coll, L1EtSum |-> e.L1EtSum,
     ScoutingMET |-> e.ScoutingMET]
HistBatches ==
    UNION { { [i \in 1..n |-> WithId(f[i], i)] : f \in [1..n -> HistEventSet] } :
              n \in 1..MaxEvents }

TriggerChoices ==
    { <<>>, <<T_L1_ZeroBias>>, <<T_DST_PFScouting_ZeroBias, T_L1_ZeroBias>> }

ScalarNames == {"l1ht", "l1met", "total_l1mult", "total_l1pt", "scoutinght",
                "scoutingmet", "total_scoutingmult", "total_scoutingpt"}
ObjectVarNames == {"n", "pt", "pt0", "pt1", "eta", "phi"}

ScalarChoices ==
    { {}, ScalarNames, ScalarNames \ {"total_l1pt"},
      ScalarNames \ {"total_l1pt", "total_l1mult"} }
ObjectChoices == { {"n", "pt"}, ObjectVarNames }

ConfigChoices ==
    { [k \in {"1d_scalar", "1d_object"} |-> IF k = "1d_scalar" THEN sc ELSE ob] :
        sc \in ScalarChoices, ob \in ObjectChoices }

(***************************************************************************)
(* AXOHistFactory: make_1d_hist, fill_1d_hist and the columns              *)
(***************************************************************************)
\* None as the value of an object_axis / object_name parameter
NoAxis == "None"
NoObject == <<>>

Ok(hd) == [err |-> "none", hist_dict |-> hd]
Raise(e, hd) == [err |-> e, hist_dict |-> hd]

\* Hist(trigger_axis, [object_axis,] observable_axis, storage='weight')
NewHist(observable_axis, object_axis) ==
    [axes |-> IF object_axis = NoAxis
              THEN {"trigger", observable_axis.name}
              ELSE {"trigger", "object", observable_axis.name},
     obs  |-> observable_axis,
     bins |-> EmptyBag]

\* variant: the histogram is built but not stored
make_1d_hist_NoStore(args, object_axis) ==
    IF Len(args) < 4 THEN Raise("TypeError", EmptyDict) ELSE Ok(args[1])

\* make_1d_hist(*args, object_axis=...): four positional parameters are
\* required, so a call with fewer raises TypeError before the body runs
make_1d_hist(args, object_axis) ==
    IF Len(args) < 4 THEN Raise("TypeError", EmptyDict)
    ELSE Ok(Put(args[1], args[2], NewHist(args[4], object_axis)))

RECURSIVE FillBins(_, _, _, _, _)
FillBins(bins, ax, trigger, object_name, observable) ==
    IF observable = <<>> THEN bins
    ELSE FillBins(bins (+) SetToBag({<<trigger, object_name, RegBin(ax, Head(observable).v)>>}),
                  ax, trigger, object_name, Tail(observable))

\* fill_1d_hist: hist_dict[hist_name].fill(**kwargs); a missing key raises
\* KeyError, keyword arguments that are not the histogram's axes TypeError
fill_1d_hist(hd, hist_name, trigger, observable, observable_name, object_name) ==
    IF hist_name \notin DOMAIN hd THEN Raise("KeyError", hd)
    ELSE LET h == hd[hist_name]
             kwargs == {observable_name, "trigger"}
                         \cup (IF object_name # NoObject THEN {"object"} ELSE {})
         IN  IF kwargs # h.axes THEN Raise("TypeError", hd)
             ELSE Ok([hd EXCEPT ![hist_name].bins =
                        FillBins(@, h.obs, trigger, object_name, observable)])

\* array[mask] on the events: a mask of another length is an IndexError
ApplyMask(evs, mask) ==
    IF Len(mask) # Len(evs) THEN [err |-> "IndexError", events |-> evs]
    ELSE [err |-> "none",
          events |-> LET idx == MaskIdx(mask) IN [k \in 1..Len(idx) |-> evs[idx[k]]]]

\* variant: no L1 jet saturation cut
L1JetMaskIgnored(evs) == [i \in 1..Len(evs) |-> TRUE]

\* line 96: dak.all(events.L1Jet.pt < 1000, axis=1)
L1JetMask(evs) ==
    [i \in 1..Len(evs) |->
        \A k \in 1..Len(evs[i].coll[S_L1Jet]) : evs[i].coll[S_L1Jet][k].pt < SatJetPt]

\* L1EtSum[(L1EtSum.etSumType == type) & (L1EtSum.bx == 0)] of one event
EtSumsOf(e, type) ==
    SelectSeq(e.L1EtSum, LAMBDA x : x.etSumType = type /\ x.bx = 0)

\* line 97: dak.flatten(events.L1EtSum.pt[(etSumType==2) & (bx==0)]) < 1040
L1MetMask(evs) ==
    LET flat == Flatten([i \in 1..Len(evs) |->
                    LET m == EtSumsOf(evs[i], 2)
                    IN  [k \in 1..Len(m) |-> m[k].pt]])
    IN  [k \in 1..Len(flat) |-> flat[k] < SatMetPt]

\* lines 208-210: the decision column events.<branch>.<path>
TriggerMask(evs, trigger_path) ==
    [i \in 1..Len(evs) |->
        evs[i].branch[TriggerBranchName(trigger_path)][TriggerPathName(trigger_path)]]

\* one value per event: [ev, v]
PerEvent(evs, vals) == [i \in 1..Len(evs) |-> [ev |-> evs[i].id, v |-> vals[i]]]

\* dak.flatten of one list of values per event
PerObject(evs, lists) ==
    Flatten([i \in 1..Len(evs) |->
               [k \in 1..Len(lists[i]) |-> [ev |-> evs[i].id, v |-> lists[i][k]]]])

Pts(objs) == [k \in 1..Len(objs) |-> objs[k].pt]
Etas(objs) == [k \in 1..Len(objs) |-> objs[k].eta]
Phis(objs) == [k \in 1..Len(objs) |-> objs[k].phi]

\* lines 285-288: only the first line is assigned; the three lines that
\* follow are expression statements of their own, evaluated and dropped
scouting_total_pt(e) == SumSeq(Pts(e.coll[S_ScoutingPFJet]))

scouting_total_mult(e) ==
    Len(e.coll[S_ScoutingPFJet]) + Len(e.coll[S_ScoutingElectron])
        + Len(e.coll[S_ScoutingMuonVtx]) + Len(e.coll[S_ScoutingPhoton])

\* lines 213-295: the scalar fills of one trigger path, in source order;
\* raises is the exception the evaluation of the observable ends with
\* (events.trig is no field of the events: AttributeError)
ScalarCalls(evt) ==
    << [flag |-> "l1ht", hist_name |-> "l1ht", observable_name |-> "ht", raises |-> "none",
        observable |-> PerObject(evt, [i \in 1..Len(evt) |-> Pts(EtSumsOf(evt[i], 1))])],
       [flag |-> "l1met", hist_name |-> "l1met", observable_name |-> "met", raises |-> "none",
        observable |-> PerObject(evt, [i \in 1..Len(evt) |-> Pts(EtSumsOf(evt[i], 2))])],
       [flag |-> "total_l1mult", hist_name |-> "total_l1mult", observable_name |-> "mult",
        raises |-> "AttributeError", observable |-> <<>>],
       [flag |-> "total_l1pt", hist_name |-> "total_l1pt", observable_name |-> "pt",
        raises |-> "AttributeError", observable |-> <<>>],
       [flag |-> "scoutinght", hist_name |-> "scoutinght", observable_name |-> "ht", raises |-> "none",
        observable |-> PerEvent(evt, [i \in 1..Len(evt) |-> SumSeq(Pts(evt[i].coll[S_ScoutingPFJet]))])],
       [flag |-> "scoutingmet", hist_name |-> "scoutingmet", observable_name |-> "met", raises |-> "none",
        observable |-> PerEvent(evt, [i \in 1..Len(evt) |-> evt[i].ScoutingMET])],
       [flag |-> "total_scoutingmult", hist_name |-> "total_scoutingmult", observable_name |-> "mult",
        raises |-> "none", observable |-> PerEvent(evt, [i \in 1..Len(evt) |-> scouting_total_mult(evt[i])])],
       [flag |-> "total_scoutingpt", hist_name |-> "total_scoutingpt", observable_name |-> "pt",
        raises |-> "none", observable |-> PerEvent(evt, [i \in 1..Len(evt) |-> scouting_total_pt(evt[i])])] >>

\* 'L1' in obj
isL1Obj(obj) == Contains(S_L1, obj)

\* variant: the pt cut taken as >=
PtAtLeastCut(o, cuts) == \A c \in 1..Len(cuts) : cuts[c].var = "pt" => o.pt >= cuts[c].cut

\* lines 306-310: the mask of the cuts of an object type (pt cuts only)
PassesCuts(o, cuts) == \A c \in 1..Len(cuts) : cuts[c].var = "pt" => o.pt > cuts[c].cut

\* lines 301-311: obj_branch of one event
obj_branch(e, od) ==
    LET raw == e.coll[od.obj]
        bx0 == IF isL1Obj(od.obj) THEN SelectSeq(raw, LAMBDA o : o.bx = 0) ELSE raw
    IN  SelectSeq(bx0, LAMBDA o : PassesCuts(o, od.cuts))

\* array[:, lo:hi] on one list
PySlice(vals, lo, hi) ==
    LET top == IF hi < Len(vals) THEN hi ELSE Len(vals)
    IN  IF lo >= top THEN <<>> ELSE SubSeq(vals, lo + 1, top)

\* lines 313-366: the per-object fills of one object type, in source order
ObjectCalls(evt, od) ==
    << [flag |-> "n", hist_name |-> "n_obj", observable_name |-> "mult",
        observable |-> PerEvent(evt, [i \in 1..Len(evt) |-> Len(obj_branch(evt[i], od))])],
       [flag |-> "pt", hist_name |-> "pt_obj", observable_name |-> "pt",
        observable |-> PerObject(evt, [i \in 1..Len(evt) |-> Pts(obj_branch(evt[i], od))])],
       [flag |-> "pt0", hist_name |-> "pt0_obj", observable_name |-> "pt",
        observable |-> PerObject(evt, [i \in 1..Len(evt) |-> PySlice(Pts(obj_branch(evt[i], od)), 0, 1)])],
       [flag |-> "pt1", hist_name |-> "pt1_obj", observable_name |-> "pt",
        observable |-> PerObject(evt, [i \in 1..Len(evt) |-> PySlice(Pts(obj_branch(evt[i], od)), 1, 2)])],
       [flag |-> "eta", hist_name |-> "eta_obj", observable_name |-> "eta",
        observable |-> PerObject(evt, [i \in 1..Len(evt) |-> Etas(obj_branch(evt[i], od))])],
       [flag |-> "phi", hist_name |-> "phi_obj", observable_name |-> "phi",
        observable |-> PerObject(evt, [i \in 1..Len(evt) |-> Phis(obj_branch(evt[i], od))])] >>

(***************************************************************************)
(* AXOHistFactory.process, step by step                                    *)
(***************************************************************************)
\* lines 100-203: the builder blocks in source order.  empty_call marks the
\* block of line 122, which calls make_1d_hist() with no argument and then
\* calls what that returns
BuilderBlocks ==
    << [cfg |-> "1d_scalar", flag |-> "l1ht",               key |-> "l1ht",               axis |-> "ht",   object_axis |-> FALSE, empty_call |-> FALSE],
       [cfg |-> "1d_scalar", flag |-> "l1met",              key |-> "l1met",              axis |-> "met",  object_axis |-> FALSE, empty_call |-> FALSE],
       [cfg |-> "1d_scalar", flag |-> "total_l1mult",       key |-> "total_l1mult",       axis |-> "mult", object_axis |-> FALSE, empty_call |-> FALSE],
       [cfg |-> "1d_scalar", flag |-> "total_l1pt",         key |-> "total_l1pt",         axis |-> "pt",   object_axis |-> FALSE, empty_call |-> TRUE],
       [cfg |-> "1d_scalar", flag |-> "scoutinght",         key |-> "scoutinght",         axis |-> "ht",   object_axis |-> FALSE, empty_call |-> FALSE],
       [cfg |-> "1d_scalar", flag |-> "scoutingmet",        key |-> "scoutingmet",        axis |-> "met",  object_axis |-> FALSE, empty_call |-> FALSE],
       [cfg |-> "1d_scalar", flag |-> "total_scoutingmult", key |-> "total_scoutingmult", axis |-> "mult", object_axis |-> FALSE, empty_call |-> FALSE],
       [cfg |-> "1d_scalar", flag |-> "total_scoutingpt",   key |-> "total_scoutingpt",   axis |-> "pt",   object_axis |-> FALSE, empty_call |-> FALSE],
       [cfg |-> "1d_object", flag |-> "n",   key |-> "n_obj",   axis |-> "mult", object_axis |-> TRUE, empty_call |-> FALSE],
       [cfg |-> "1d_object", flag |-> "pt",  key |-> "pt_obj",  axis |-> "pt",   object_axis |-> TRUE, empty_call |-> FALSE],
       [cfg |-> "1d_object", flag |-> "pt0", key |-> "pt0_obj", axis |-> "pt",   object_axis |-> TRUE, empty_call |-> FALSE],
       [cfg |-> "1d_object", flag |-> "pt1", key |-> "pt1_obj", axis |-> "pt",   object_axis |-> TRUE, empty_call |-> FALSE],
       [cfg |-> "1d_object", flag |-> "eta", key |-> "eta_obj", axis |-> "eta",  object_axis |-> TRUE, empty_call |-> FALSE],
       [cfg |-> "1d_object", flag |-> "phi", key |-> "phi_obj", axis |-> "phi",  object_axis |-> TRUE, empty_call |-> FALSE] >>

\* variant: every builder block and fill runs whatever the configuration
RequestedAlways(cfg, kind, flag) == TRUE

\* (flag in self.hists_to_process[kind])
Requested(cfg, kind, flag) == flag \in cfg[kind]

\* one builder block on the dictionary hd
BuildBlock(b, hd, cfg) ==
    IF ~Requested(cfg, b.cfg, b.flag) THEN Ok(hd)
    ELSE IF b.empty_call
         THEN LET first == make_1d_hist(<<>>, NoAxis)
              IN  IF first.err # "none" THEN Raise(first.err, hd)
                  ELSE Raise("TypeError", hd)   \* a dict is not callable
    ELSE LET r == make_1d_hist(<<hd, b.key, "trigger", Axes[b.axis]>>,
                               IF b.object_axis THEN "object" ELSE NoAxis)
         IN  IF r.err # "none" THEN Raise(r.err, hd) ELSE r

\* the guarded fills of a section, run in order until one raises
RECURSIVE RunCalls(_, _, _, _, _)
RunCalls(calls, st, k, trigger, object_name) ==
    IF calls = <<>> \/ st.err # "none" THEN st
    ELSE LET c == Head(calls)
         IN  IF c.raises # "none"
             THEN [st EXCEPT !.err = c.raises]
             ELSE LET r == fill_1d_hist(st.hist_dict, c.hist_name, trigger,
                                        c.observable, c.observable_name, object_name)
                      log == [n \in 1..Len(c.observable) |->
                                [hist |-> c.hist_name, ti |-> k, trigger |-> trigger,
                                 object |-> object_name, ev |-> c.observable[n].ev,
                                 v |-> c.observable[n].v]]
                      RECURSIVE AddAll(_, _)
                      AddAll(bag, es) ==
                          IF es = <<>> THEN bag
                          ELSE AddAll(bag (+) SetToBag({Head(es)}), Tail(es))
                  IN  RunCalls(Tail(calls),
                               [err |-> r.err, hist_dict |-> r.hist_dict,
                                filled |-> IF r.err = "none" THEN AddAll(st.filled, log)
                                           ELSE st.filled],
                               k, trigger, object_name)

InitHist ==
    /\ triggers \in TriggerChoices
    /\ hists_to_process \in ConfigChoices
    /\ events \in HistBatches
    /\ events_in = events
    /\ pc = "cuts"
    /\ err = "none"
    /\ hist_dict = EmptyDict
    /\ events_trig = <<>>
    /\ bi = 1
    /\ ti = 1
    /\ filled = EmptyBag
    /\ L1s = <<>>
    /\ L1_fields = {}
    /\ seed_i = 1
    /\ selection = [names |-> <<>>, data |-> <<>>]
    /\ cutflow = <<>>
    /\ select = <<>>
    /\ jets = <<>>
    /\ h_ht = EmptyBag
    /\ h_met = EmptyBag
    /\ h_pt = EmptyBag
    /\ hists = EmptyDict
    /\ counted = {}

\* lines 93-97: hist_dict = {} and the two trigger-saturation cuts
QualityCuts ==
    /\ pc = "cuts"
    /\ LET r1 == ApplyMask(events, L1JetMask(events))
           r2 == ApplyMask(r1.events, L1MetMask(r1.events))
       IN  /\ events' = r2.events
           /\ err' = IF r1.err # "none" THEN r1.err ELSE r2.err
           /\ pc' = IF r1.err # "none" \/ r2.err # "none" THEN "raised" ELSE "build"
    /\ hist_dict' = EmptyDict
    /\ UNCHANGED <<triggers, hists_to_process, events_trig, bi, ti, filled,
                   events_in>>
    /\ UNCHANGED effvars

AfterBuild == IF triggers = <<>> THEN "return" ELSE "trigger"

\* the builder runs in three stretches: the L1 scalars (lines 100-127), the
\* scouting scalars (128-155) and the per-object histograms (156-203)
StretchEnd(k) == IF k <= 4 THEN 4 ELSE IF k <= 8 THEN 8 ELSE Len(BuilderBlocks)

\* blocks k..last in source order, until one raises; at is the block that
\* raised, or last + 1
RECURSIVE RunBlocks(_, _, _, _)
RunBlocks(k, last, hd, cfg) ==
    IF k > last THEN [err |-> "none", hist_dict |-> hd, at |-> k]
    ELSE LET r == BuildBlock(BuilderBlocks[k], hd, cfg)
         IN  IF r.err # "none" THEN [err |-> r.err, hist_dict |-> hd, at |-> k]
             ELSE RunBlocks(k + 1, last, r.hist_dict, cfg)

\* lines 100-203: a stretch of builder blocks none of which raises
Build ==
    /\ pc = "build"
    /\ LET r == RunBlocks(bi, StretchEnd(bi), hist_dict, hists_to_process)
       IN  /\ r.err = "none"
           /\ hist_dict' = r.hist_dict
           /\ bi' = r.at
           /\ pc' = IF r.at > Len(BuilderBlocks) THEN AfterBuild ELSE "build"
    /\ UNCHANGED <<err, events, triggers, hists_to_process, events_trig, ti,
                   filled, events_in>>
    /\ UNCHANGED effvars

\* lines 100-203: a builder block that raises ends process()
BuildRaises ==
    /\ pc = "build"
    /\ LET r == RunBlocks(bi, StretchEnd(bi), hist_dict, hists_to_process)
       IN  /\ r.err # "none"
           /\ err' = r.err
           /\ hist_dict' = r.hist_dict
           /\ bi' = r.at
    /\ pc' = "raised"
    /\ UNCHANGED <<events, triggers, hists_to_process, events_trig, ti, filled,
                   events_in>>
    /\ UNCHANGED effvars

\* the scalar fills the configuration asks for
RequestedScalarCalls(evt, cfg) ==
    SelectSeq(ScalarCalls(evt), LAMBDA c : Requested(cfg, "1d_scalar", c.flag))

\* the object fills the configuration asks for
RequestedObjectCalls(evt, od, cfg) ==
    LET calls == SelectSeq(ObjectCalls(evt, od),
                           LAMBDA c : Requested(cfg, "1d_object", c.flag))
    IN  [k \in 1..Len(calls) |->
            [hist_name |-> calls[k].hist_name, observable_name |-> calls[k].observable_name,
             observable |-> calls[k].observable, raises |-> "none"]]

\* lines 205-295: the events of the trigger path and its scalar fills
TriggerScalars ==
    /\ pc = "trigger"
    /\ \E r \in {ApplyMask(events, TriggerMask(events, triggers[ti]))} :
       \E st \in {RunCalls(RequestedScalarCalls(r.events, hists_to_process),
                           [err |-> r.err, hist_dict |-> hist_dict, filled |-> filled],
                           ti, TriggerCategory(triggers[ti]), NoObject)} :
           /\ events_trig' = r.events
           /\ hist_dict' = st.hist_dict
           /\ filled' = st.filled
           /\ err' = st.err
           /\ pc' = IF st.err # "none" THEN "raised" ELSE "objects"
    /\ UNCHANGED <<events, triggers, hists_to_process, bi, ti, events_in>>
    /\ UNCHANGED effvars

\* lines 296-366: the loop over object_dict for one trigger path, object
\* type k onwards, until a fill raises
RECURSIVE RunObjects(_, _, _, _, _)
RunObjects(k, st, evt, n, trigger) ==
    IF k > Len(object_dict) \/ st.err # "none" THEN st
    ELSE RunObjects(k + 1,
                    RunCalls(RequestedObjectCalls(evt, object_dict[k], hists_to_process),
                             st, n, trigger, object_dict[k].obj),
                    evt, n, trigger)

\* lines 296-366: the per-object fills of the current trigger path
ObjectFills ==
    /\ pc = "objects"
    /\ \E st \in {RunObjects(1, [err |-> "none", hist_dict |-> hist_dict, filled |-> filled],
                             events_trig, ti, TriggerCategory(triggers[ti]))} :
           /\ hist_dict' = st.hist_dict
           /\ filled' = st.filled
           /\ err' = st.err
           /\ pc' = IF st.err # "none" THEN "raised"
                    ELSE IF ti < Len(triggers) THEN "trigger"
                    ELSE "return"
    /\ ti' = IF ti < Len(triggers) THEN ti + 1 ELSE ti
    /\ UNCHANGED <<events, triggers, hists_to_process, events_trig, bi, events_in>>
    /\ UNCHANGED effvars

\* line 369
ReturnHistDict ==
    /\ pc = "return"
    /\ pc' = "done"
    /\ UNCHANGED <<err, events, histvars>>
    /\ UNCHANGED effvars

NextHist ==
    \/ QualityCuts
    \/ Build
    \/ BuildRaises
    \/ TriggerScalars
    \/ ObjectFills
    \/ ReturnHistDict

SpecHist == InitHist /\ [][NextHist]_vars

(***************************************************************************)
(* Claims about AXOHistFactory.process (checked under SpecHist)            *)
(***************************************************************************)
\* the dictionary key of a per-object observable, as the builder spells it
ObjectKey ==
    [v \in ObjectVarNames |->
        CASE v = "n" -> "n_obj" [] v = "pt" -> "pt_obj" [] v = "pt0" -> "pt0_obj"
          [] v = "pt1" -> "pt1_obj" [] v = "eta" -> "eta_obj" [] v = "phi" -> "phi_obj"]

ConfiguredKeys ==
    hists_to_process["1d_scalar"]
        \cup { ObjectKey[v] : v \in hists_to_process["1d_object"] }

BuilderDone == bi > Len(BuilderBlocks)

Entries == BagToSet(filled)

\* an event the trigger-saturation cuts are meant to remove
Saturated(e) ==
    \/ \E k \in 1..Len(e.coll[S_L1Jet]) : e.coll[S_L1Jet][k].pt >= SatJetPt
    \/ \E k \in 1..Len(e.L1EtSum) :
          /\ e.L1EtSum[k].etSumType = 2
          /\ e.L1EtSum[k].bx = 0
          /\ e.L1EtSum[k].pt >= SatMetPt

\* the decision bit and the category (last token) of the two trigger paths
BitOf(e, tp) ==
    IF tp = T_L1_ZeroBias THEN e.branch[S_L1][S_ZeroBias]
    ELSE e.branch[S_DST][S_PFScouting_ZeroBias]
LastToken(tp) == S_ZeroBias

\* C3 (as stated): at every point of process and in the dictionary it
\* returns, the keys of hist_dict are a subset of the names listed in
\* hists_to_process['1d_scalar'] and hists_to_process['1d_object'].
C3_KeysAreConfiguredNames ==
    DOMAIN hist_dict \subseteq
        (hists_to_process["1d_scalar"] \cup hists_to_process["1d_object"])

\* C3 (amended): at every point of process and in the dictionary it returns,
\* every key of hist_dict is a name listed in hists_to_process['1d_scalar']
\* or a name listed in hists_to_process['1d_object'] followed by "_obj".
C3_KeysAreConfiguredKeys == DOMAIN hist_dict \subseteq ConfiguredKeys

\* process returned a dictionary with scalar and per-object histograms, and
\* without the histograms that were not asked for
C3_Witness ==
    /\ pc = "done"
    /\ {"l1met", "n_obj", "pt_obj"} \subseteq DOMAIN hist_dict
    /\ "eta_obj" \notin DOMAIN hist_dict
    /\ "total_l1pt" \notin DOMAIN hist_dict

\* C4: every fill_1d_hist call of the per-trigger loop names a histogram the
\* builder phase created: the loop never looks up an absent key (no
\* KeyError) and never adds a key to hist_dict.
C4_FillsOnlyBuiltHistograms ==
    /\ err # "KeyError"
    /\ BuilderDone => DOMAIN hist_dict = ConfiguredKeys
    /\ \A e \in Entries : BuilderDone /\ e.hist \in DOMAIN hist_dict

\* scalar and per-object histograms were filled for two trigger paths
C4_Witness ==
    /\ pc = "done"
    /\ \E e \in Entries : e.hist = "scoutinght" /\ e.ti = 2
    /\ \E e \in Entries : e.hist = "phi_obj" /\ e.ti = 2

TotalL1ptBlock == CHOOSE k \in 1..Len(BuilderBlocks) : BuilderBlocks[k].key = "total_l1pt"

\* C5: when 'total_l1pt' is in hists_to_process['1d_scalar'], the
\* make_1d_hist()(...) call is a no-op: it raises no error, leaves hist_dict
\* as it was, and process goes on to the remaining builder steps and the
\* per-trigger fill loop.
C5_TotalL1ptCallIsNoOp ==
    ("total_l1pt" \in hists_to_process["1d_scalar"] /\ bi = TotalL1ptBlock)
        => (pc # "raised" /\ err = "none")

\* C6: an event that has any L1 jet with pt >= 1000, or whose L1
\* missing-energy sum (etSumType == 2, bx == 0) has pt >= 1040, contributes
\* no entry to any histogram under any trigger category; the cuts are in
\* force before the first trigger selection.
C6_SaturatedEventsNeverFilled ==
    /\ pc # "cuts" => \A i \in 1..Len(events) : ~Saturated(events[i])
    /\ \A i \in 1..Len(events_trig) : ~Saturated(events_trig[i])
    /\ \A e \in Entries : ~Saturated(events_in[e.ev])

\* histograms were filled although the batch held a saturated event whose
\* trigger bit was set
C6_Witness ==
    /\ pc = "done"
    /\ Entries # {}
    /\ \E i \in 1..Len(events_in) :
          /\ Saturated(events_in[i])
          /\ \A k \in 1..Len(triggers) : BitOf(events_in[i], triggers[k])

\* C7 (as stated): for every configured trigger path, an event contributes
\* an entry under the category of that path only if it passed the quality
\* cuts and its decision bit events.<branch>.<path> is true; the categories
\* present are a subset of the last tokens of the configured paths.
C7_EntryImpliesBitOfEveryPath ==
    /\ \A k \in 1..Len(triggers) : \A e \in Entries :
          e.trigger = LastToken(triggers[k])
              => (~Saturated(events_in[e.ev]) /\ BitOf(events_in[e.ev], triggers[k]))
    /\ \A e \in Entries : \E k \in 1..Len(triggers) : e.trigger = LastToken(triggers[k])

\* the categories that occur in the bins of the histograms
BinCategories ==
    UNION { { b[1] : b \in BagToSet(hist_dict[key].bins) } : key \in DOMAIN hist_dict }

\* C7 (amended): an event contributes an entry under a category only if it
\* passed the quality cuts and the decision bit events.<branch>.<path> of at
\* least one configured trigger path whose last token is that category is
\* true; the categories present are a subset of the last tokens of the
\* configured paths.
C7_EntryImpliesBitOfSomePath ==
    /\ \A e \in Entries :
          /\ ~Saturated(events_in[e.ev])
          /\ \E k \in 1..Len(triggers) :
                /\ e.trigger = LastToken(triggers[k])
                /\ BitOf(events_in[e.ev], triggers[k])
    /\ BinCategories \subseteq { LastToken(triggers[k]) : k \in 1..Len(triggers) }

\* two trigger paths were processed and an event that fired only one of
\* them has entries
C7_Witness ==
    /\ pc = "done"
    /\ Len(triggers) = 2
    /\ BinCategories # {}
    /\ \E e \in Entries :
          BitOf(events_in[e.ev], triggers[1]) # BitOf(events_in[e.ev], triggers[2])

L1ObjNames == {S_L1Jet, S_L1EG, S_L1Mu}

PtCutOf(obj) ==
    LET od == CHOOSE d \in {object_dict[k] : k \in 1..Len(object_dict)} : d.obj = obj
    IN  od.cuts[1].cut

\* the objects of an event that the claim says are histogrammed
PassingObjs(e, obj) ==
    SelectSeq(e.coll[obj],
              LAMBDA o : o.pt > PtCutOf(obj) /\ (obj \in L1ObjNames => o.bx = 0))

\* the events of path k that the object loop has seen
TriggeredIds(k) ==
    { i \in 1..Len(events_in) :
        ~Saturated(events_in[i]) /\ BitOf(events_in[i], triggers[k]) }

ObjEntry(h, k, obj, i, x) ==
    [hist |-> h, ti |-> k, trigger |-> LastToken(triggers[k]), object |-> obj,
     ev |-> i, v |-> x]

\* C8: for every object type and every triggered event only objects with pt
\* strictly above the configured threshold (and bx = 0 for L1 object types)
\* contribute: n_obj is filled with exactly the number of such objects of
\* the event, and pt_obj, eta_obj, phi_obj get one entry per such object.
C8_ObjectCutsDecideEntries ==
    /\ \A e \in Entries :
          LET objs == PassingObjs(events_in[e.ev], e.object)
          IN  /\ e.hist = "n_obj" => e.v = Len(objs)
              /\ e.hist = "pt_obj" =>
                    CopiesIn(e, filled) = Len(SelectSeq(objs, LAMBDA o : o.pt = e.v))
              /\ e.hist = "eta_obj" =>
                    CopiesIn(e, filled) = Len(SelectSeq(objs, LAMBDA o : o.eta = e.v))
              /\ e.hist = "phi_obj" =>
                    CopiesIn(e, filled) = Len(SelectSeq(objs, LAMBDA o : o.phi = e.v))
    /\ pc = "done" =>
          \A k \in 1..Len(triggers) : \A obj \in ObjNames : \A i \in TriggeredIds(k) :
              LET objs == PassingObjs(events_in[i], obj)
              IN  /\ "n" \in hists_to_process["1d_object"] =>
                        CopiesIn(ObjEntry("n_obj", k, obj, i, Len(objs)), filled) = 1
                  /\ \A n \in 1..Len(objs) :
                        /\ "pt" \in hists_to_process["1d_object"] =>
                              ObjEntry("pt_obj", k, obj, i, objs[n].pt) \in Entries
                        /\ "eta" \in hists_to_process["1d_object"] =>
                              ObjEntry("eta_obj", k, obj, i, objs[n].eta) \in Entries
                        /\ "phi" \in hists_to_process["1d_object"] =>
                              ObjEntry("phi_obj", k, obj, i, objs[n].phi) \in Entries

\* an event was filled whose L1 jets and scouting jets were partly cut away
C8_Witness ==
    /\ pc = "done"
    /\ \E e \in Entries :
          /\ e.hist = "n_obj" /\ e.object = S_L1Jet
          /\ e.v = 1 /\ Len(events_in[e.ev].coll[S_L1Jet]) = 3
    /\ \E e \in Entries :
          /\ e.hist = "n_obj" /\ e.object = S_ScoutingPFJet
          /\ e.v = 2 /\ Len(events_in[e.ev].coll[S_ScoutingPFJet]) = 3
    /\ \E e \in Entries : e.hist = "eta_obj" /\ e.object = S_L1Mu

\* the four terms written at lines 285-288, for one event: the jet pt sum,
\* the electron pt sum, the number of muons and the number of photons (a
\* count of one is 1 GeV, 10 in the unit of the momenta here)
ScoutingPtAsWritten(e) ==
    SumSeq(Pts(e.coll[S_ScoutingPFJet]))
        + SumSeq(Pts(e.coll[S_ScoutingElectron]))
        + 10 * Len(e.coll[S_ScoutingMuonVtx])
        + 10 * Len(e.coll[S_ScoutingPhoton])

\* C13: when 'total_scoutingpt' is requested, the value filled for every
\* triggered event is the total over the four scouting collections as the
\* expression is written: jet pt sum plus electron pt sum plus the muon term
\* plus the photon term, not the jet pt sum alone.
C13_TotalScoutingPtIsAllFourTerms ==
    /\ \A e \in Entries :
          e.hist = "total_scoutingpt" => e.v = ScoutingPtAsWritten(events_in[e.ev])
    /\ (pc = "done" /\ "total_scoutingpt" \in hists_to_process["1d_scalar"]) =>
          \A k \in 1..Len(triggers) : \A i \in TriggeredIds(k) :
              \E e \in Entries :
                  /\ e.hist = "total_scoutingpt" /\ e.ti = k /\ e.ev = i
                  /\ e.v = ScoutingPtAsWritten(events_in[i])

====
